---- MODULE Spec2Model ----
(***************************************************************************)
(* A model of scripts/ibex/split_vcd.py: split_vcd(input_file,             *)
(* split_time_ps, output1, output2).                                       *)
(*                                                                         *)
(* A file is a sequence of lines; a line is a sequence of one-character    *)
(* strings, so that the substring tests ('$dumpvars' in line, '$end' in    *)
(* line), line.startswith('#') and int(line[1:].strip()) are computed on   *)
(* the characters as Python computes them.                                 *)
(***************************************************************************)
EXTENDS Integers, Sequences, FiniteSets, TLC

\* ------------------------------------------------------------------ bounds
\* Longest input file (in lines) of Spec and SpecHeader.
MaxLines == 4
\* Longest input file (in lines) of SpecResplit.
MaxLinesR == 3

\* ------------------------------------------------------------- the lines
NL == <<"\n">>
DUMPVARS == <<"$", "d", "u", "m", "p", "v", "a", "r", "s">>
END == <<"$", "e", "n", "d">>

LDumpvars == DUMPVARS \o NL
LEnd == END \o NL
\* "$dumpvars $end": the whole initial dump on one line
LDumpvarsEnd == DUMPVARS \o <<" ">> \o END \o NL
\* "$enddefinitions $end": a declaration line that comes before $dumpvars
LEndDefs == <<"$", "e", "n", "d", "d", "e", "f", "s", " ">> \o END \o NL
LValue == <<"1", "!", "\n">>
LT100 == <<"#", "1", "0", "0", "\n">>
LT200 == <<"#", "2", "0", "0", "\n">>
LTNeg == <<"#", "-", "5", "\n">>
LTBad == <<"#", "a", "b", "c", "\n">>

\* The lines the input files are drawn from.
BodyVocab == {LValue, LT100, LT200, LTNeg, LTBad}
HeaderVocab == {LDumpvars, LEnd, LDumpvarsEnd, LEndDefs, LValue, LT100}
ResplitVocab == {LDumpvars, LEnd, LValue, LT100, LT200, LTNeg, LTBad}
Headers == {<<>>, <<LDumpvars, LEnd>>, <<LEndDefs, LDumpvars, LValue, LEnd>>}

\* The split times the caller passes (argparse type=int: any integer).
Times == {-1, 0, 99, 100}

SeqsUpTo(S, n) == UNION {[1..m -> S] : m \in 0..n}

\* ------------------------------------------------------- string functions
\* sub in line
Contains(sub, line) ==
    \E j \in 0..(Len(line) - Len(sub)) : SubSeq(line, j + 1, j + Len(sub)) = sub

\* line.startswith(ch)
StartsWith(line, ch) == Len(line) >= 1 /\ line[1] = ch

\* line[1:]
Tail1(line) == SubSeq(line, 2, Len(line))

IsSpace(c) == c \in {" ", "\n", "\t", "\r"}

\* s.strip()
Strip(s) ==
    LET keep == {j \in 1..Len(s) : ~IsSpace(s[j])}
    IN  IF keep = {} THEN <<>>
        ELSE SubSeq(s, CHOOSE a \in keep : \A b \in keep : a <= b,
                       CHOOSE a \in keep : \A b \in keep : a >= b)

DigitChars == <<"0", "1", "2", "3", "4", "5", "6", "7", "8", "9">>
IsDigit(c) == \E d \in 1..10 : DigitChars[d] = c
DigitVal(c) == (CHOOSE d \in 1..10 : DigitChars[d] = c) - 1

RECURSIVE DecVal(_, _)
DecVal(b, n) ==
    IF n = 0 THEN 0
    ELSE IF b[n] = "_" THEN DecVal(b, n - 1)
    ELSE DecVal(b, n - 1) * 10 + DigitVal(b[n])

\* int(s): an optional sign, then decimal digits, single underscores allowed
\* between digits; anything else raises ValueError (ok = FALSE).
ParseInt(s) ==
    LET t == Strip(s)
        signed == Len(t) > 0 /\ t[1] \in {"+", "-"}
        b == IF signed THEN Tail1(t) ELSE t
        wf == /\ Len(b) > 0
              /\ \A j \in 1..Len(b) :
                    \/ IsDigit(b[j])
                    \/ /\ b[j] = "_"
                       /\ 1 < j /\ j < Len(b)
                       /\ IsDigit(b[j - 1]) /\ IsDigit(b[j + 1])
    IN  IF ~wf THEN [ok |-> FALSE, val |-> 0]
        ELSE [ok |-> TRUE,
              val |-> IF signed /\ t[1] = "-" THEN 0 - DecVal(b, Len(b))
                      ELSE DecVal(b, Len(b))]

\* --------------------------------------------------------- the header scan
\* if '$dumpvars' in line: in_dumpvars = True
InDumpvarsAfter(in_dv, line) == in_dv \/ Contains(DUMPVARS, line)

\* A variant of ClosesHeader that forgets in_dumpvars: any '$end' line closes.
ClosesHeaderAnyEnd(in_dv, line) == Contains(END, line)

\* if in_dumpvars and '$end' in line
ClosesHeader(in_dv, line) == in_dv /\ Contains(END, line)

\* The loop of lines 24-29 from index n (0-based) on: the header_end it sets.
RECURSIVE HeaderScan(_, _, _)
HeaderScan(ls, n, in_dv) ==
    IF n >= Len(ls) THEN 0
    ELSE LET dv == InDumpvarsAfter(in_dv, ls[n + 1])
         IN  IF ClosesHeader(dv, ls[n + 1]) THEN n + 1
             ELSE HeaderScan(ls, n + 1, dv)

HeaderEnd(ls) == HeaderScan(ls, 0, FALSE)

\* A variant of HeaderOf that is one line short: lines[:header_end - 1].
HeaderOfShort(ls, he) == SubSeq(ls, 1, he - 1)

\* lines[:header_end]
HeaderOf(ls, he) == SubSeq(ls, 1, he)

\* lines[header_end:]
DataOf(ls, he) == SubSeq(ls, he + 1, Len(ls))

\* -------------------------------------------------------------- the router
\* A variant of TimeAfter whose except branch resets current_time to 0.
TimeAfterReset(ct, line) ==
    IF StartsWith(line, "#")
    THEN LET r == ParseInt(Strip(Tail1(line))) IN IF r.ok THEN r.val ELSE 0
    ELSE ct

\* The value of current_time after the timestamp check of one line.
TimeAfter(ct, line) ==
    IF StartsWith(line, "#")
    THEN LET r == ParseInt(Strip(Tail1(line))) IN IF r.ok THEN r.val ELSE ct
    ELSE ct

\* A variant of RoutesBefore that excludes the split time: current_time < T.
RoutesBeforeStrict(ct, T) == ct < T

\* if current_time <= split_time_ps
RoutesBefore(ct, T) == ct <= T

RouteInit ==
    [data1 |-> <<>>, data2 |-> <<>>, current_time |-> 0, split_occurred |-> FALSE]

\* A variant of RouteStep that does what the comment in its else branch says:
\* the line on which the split occurs is added to data1 as well.
RouteStepDup(st, line, T) ==
    LET ct == TimeAfter(st.current_time, line)
    IN  IF RoutesBefore(ct, T)
        THEN [st EXCEPT !.current_time = ct, !.data1 = Append(@, line)]
        ELSE [st EXCEPT !.current_time = ct, !.data2 = Append(@, line),
                        !.data1 = IF st.split_occurred THEN @ ELSE Append(@, line),
                        !.split_occurred = TRUE]

\* One iteration of the loop over data.
RouteStep(st, line, T) ==
    LET ct == TimeAfter(st.current_time, line)
    IN  IF RoutesBefore(ct, T)
        THEN [st EXCEPT !.current_time = ct, !.data1 = Append(@, line)]
        ELSE [st EXCEPT !.current_time = ct, !.data2 = Append(@, line),
                        !.split_occurred = TRUE]

RECURSIVE RouteFold(_, _, _)
RouteFold(dat, n, T) ==
    IF n = 0 THEN RouteInit
    ELSE RouteStep(RouteFold(dat, n - 1, T), dat[n], T)

\* f.writelines(header); f.writelines(dataN)
Written(hdr, dat) == hdr \o dat

\* split_vcd as a function of the input file and the split time.
SplitVcd(ls, T) ==
    LET he == HeaderEnd(ls)
        st == RouteFold(DataOf(ls, he), Len(DataOf(ls, he)), T)
    IN  [out1 |-> Written(HeaderOf(ls, he), st.data1),
         out2 |-> Written(HeaderOf(ls, he), st.data2)]

\* --------------------------------------------------------------- the state
VARIABLES
    lines,          \* f.readlines() of input_file
    split_time_ps,  \* the split time
    pc,             \* "scan", "slice", "route", "write", "done"
    i,              \* index of the header scan
    header_end, in_dumpvars,
    header, data,
    data1, data2, current_time, split_occurred,
    k,              \* number of lines of data the router has consumed
    out1, out2,     \* the contents of the two output files
    dest,           \* history: dest[n] is the partition (1, 2) data[n] went to
    run,            \* history: 1, or 2 when the input is a first run's output 2
    in0, t0         \* history: the first run's input file and split time

vars == <<lines, split_time_ps, pc, i, header_end, in_dumpvars, header, data,
          data1, data2, current_time, split_occurred, k, out1, out2, dest,
          run, in0, t0>>

Start(ls, T) ==
    /\ lines = ls
    /\ split_time_ps = T
    /\ pc = "scan"
    /\ i = 0
    /\ header_end = 0
    /\ in_dumpvars = FALSE
    /\ header = <<>>
    /\ data = <<>>
    /\ data1 = <<>>
    /\ data2 = <<>>
    /\ current_time = 0
    /\ split_occurred = FALSE
    /\ k = 0
    /\ out1 = <<>>
    /\ out2 = <<>>
    /\ dest = <<>>
    /\ run = 1
    /\ in0 = ls
    /\ t0 = T

Init ==
    \E h \in Headers, b \in SeqsUpTo(BodyVocab, MaxLines), T \in Times :
        Start(h \o b, T)

InitHeader ==
    \E ls \in SeqsUpTo(HeaderVocab, MaxLines), T \in {99, 100} : Start(ls, T)

InitResplit ==
    \E ls \in SeqsUpTo(ResplitVocab, MaxLinesR), T \in Times : Start(ls, T)

\* ------------------------------------------------------------- the actions
\* One iteration of "for i, line in enumerate(lines)".
ScanLine ==
    /\ pc = "scan"
    /\ i < Len(lines)
    /\ LET line == lines[i + 1]
           dv == InDumpvarsAfter(in_dumpvars, line)
       IN  /\ in_dumpvars' = dv
           /\ IF ClosesHeader(dv, line)
              THEN /\ header_end' = i + 1
                   /\ i' = i
                   /\ pc' = "slice"
              ELSE /\ header_end' = header_end
                   /\ i' = i + 1
                   /\ pc' = "scan"
    /\ UNCHANGED <<lines, split_time_ps, header, data, data1, data2,
                   current_time, split_occurred, k, out1, out2, dest,
                   run, in0, t0>>

\* The scan runs off the end of lines without a break.
ScanEnd ==
    /\ pc = "scan"
    /\ i = Len(lines)
    /\ pc' = "slice"
    /\ UNCHANGED <<lines, split_time_ps, i, header_end, in_dumpvars, header,
                   data, data1, data2, current_time, split_occurred, k, out1,
                   out2, dest, run, in0, t0>>

\* header = lines[:header_end]; data = lines[header_end:]; the router's locals.
Slice ==
    /\ pc = "slice"
    /\ header' = HeaderOf(lines, header_end)
    /\ data' = DataOf(lines, header_end)
    /\ data1' = RouteInit.data1
    /\ data2' = RouteInit.data2
    /\ current_time' = RouteInit.current_time
    /\ split_occurred' = RouteInit.split_occurred
    /\ k' = 0
    /\ dest' = <<>>
    /\ pc' = "route"
    /\ UNCHANGED <<lines, split_time_ps, i, header_end, in_dumpvars, out1,
                   out2, run, in0, t0>>

\* One iteration of "for line in data".
RouteLine ==
    /\ pc = "route"
    /\ k < Len(data)
    /\ LET st == RouteStep([data1 |-> data1, data2 |-> data2,
                            current_time |-> current_time,
                            split_occurred |-> split_occurred],
                           data[k + 1], split_time_ps)
       IN  /\ data1' = st.data1
           /\ data2' = st.data2
           /\ current_time' = st.current_time
           /\ split_occurred' = st.split_occurred
           /\ dest' = Append(dest, IF Len(st.data1) > Len(data1) THEN 1 ELSE 2)
    /\ k' = k + 1
    /\ UNCHANGED <<lines, split_time_ps, pc, i, header_end, in_dumpvars,
                   header, data, out1, out2, run, in0, t0>>

RouteEnd ==
    /\ pc = "route"
    /\ k = Len(data)
    /\ pc' = "write"
    /\ UNCHANGED <<lines, split_time_ps, i, header_end, in_dumpvars, header,
                   data, data1, data2, current_time, split_occurred, k, out1,
                   out2, dest, run, in0, t0>>

\* The two files are written.
WriteOutputs ==
    /\ pc = "write"
    /\ out1' = Written(header, data1)
    /\ out2' = Written(header, data2)
    /\ pc' = "done"
    /\ UNCHANGED <<lines, split_time_ps, i, header_end, in_dumpvars, header,
                   data, data1, data2, current_time, split_occurred, k, dest,
                   run, in0, t0>>

\* split_vcd is called again, on the output 2 it wrote, with a split time T2.
Resplit ==
    /\ pc = "done"
    /\ run = 1
    /\ \E T2 \in Times :
          /\ lines' = out2
          /\ split_time_ps' = T2
    /\ pc' = "scan"
    /\ i' = 0
    /\ header_end' = 0
    /\ in_dumpvars' = FALSE
    /\ header' = <<>>
    /\ data' = <<>>
    /\ data1' = <<>>
    /\ data2' = <<>>
    /\ current_time' = 0
    /\ split_occurred' = FALSE
    /\ k' = 0
    /\ out1' = <<>>
    /\ out2' = <<>>
    /\ dest' = <<>>
    /\ run' = 2
    /\ UNCHANGED <<in0, t0>>

Next ==
    \/ ScanLine
    \/ ScanEnd
    \/ Slice
    \/ RouteLine
    \/ RouteEnd
    \/ WriteOutputs

NextResplit ==
    \/ Next
    \/ Resplit

Spec == Init /\ [][Next]_vars
SpecHeader == InitHeader /\ [][Next]_vars
SpecResplit == InitResplit /\ [][NextResplit]_vars

\* ------------------------------------------------- vocabulary of the claims
\* Every line an input file can hold, and for each whether it is a timestamp
\* line ('#' followed by an integer) and the integer (computed once).
AllLines == BodyVocab \cup HeaderVocab \cup ResplitVocab
LineClass ==
    [l \in AllLines |->
        [ts |-> StartsWith(l, "#") /\ ParseInt(Strip(Tail1(l))).ok,
         val |-> ParseInt(Strip(Tail1(l))).val]]

\* A timestamp line: '#' followed by an integer.
IsTs(line) == LineClass[line].ts
TsVal(line) == LineClass[line].val

\* A line that begins with '#' and whose remainder is no integer.
Malformed(line) == StartsWith(line, "#") /\ ~IsTs(line)

MaxOf(S) == CHOOSE a \in S : \A b \in S : a >= b
MinOf(S) == CHOOSE a \in S : \A b \in S : a <= b

\* The index of the last timestamp line among dat[1..n], 0 when there is none.
LastTs(dat, n) ==
    LET S == {j \in 1..n : IsTs(dat[j])} IN IF S = {} THEN 0 ELSE MaxOf(S)

\* The time that governs dat[n]: that of the most recent timestamp line at or
\* before it, 0 before any timestamp line.
GovTime(dat, n) ==
    IF LastTs(dat, n) = 0 THEN 0 ELSE TsVal(dat[LastTs(dat, n)])

\* The lines of dat[1..n] whose index is in S, in order.
RECURSIVE SubseqAt(_, _, _)
SubseqAt(dat, n, S) ==
    IF n = 0 THEN <<>>
    ELSE IF n \in S THEN Append(SubseqAt(dat, n - 1, S), dat[n])
    ELSE SubseqAt(dat, n - 1, S)

\* The body of a file lines as the program delimits it.
BodyOf(ls) == DataOf(ls, HeaderEnd(ls))

\* The timestamps of dat never decrease, and none is below the time 0 that
\* holds before the first of them unless the split time is itself >= 0.
Ordered(dat, T) ==
    /\ \A a, b \in 1..Len(dat) :
          (a < b /\ IsTs(dat[a]) /\ IsTs(dat[b])) => TsVal(dat[a]) <= TsVal(dat[b])
    /\ \/ T >= 0
       \/ \A a \in 1..Len(dat) : IsTs(dat[a]) => TsVal(dat[a]) >= 0

Routing == pc \in {"route", "write", "done"}

\* dest records where each consumed line went: data1 and data2 are the lines
\* of data[1..k] with dest 1 and 2.
DestLinked ==
    /\ Len(dest) = k
    /\ data1 = SubseqAt(data, k, {n \in 1..k : dest[n] = 1})
    /\ data2 = SubseqAt(data, k, {n \in 1..k : dest[n] = 2})

\* The body part of an output file.
BodyPart(out) == SubSeq(out, header_end + 1, Len(out))

C2_HeaderReplication ==
    pc = "done" =>
        /\ out1 = SubSeq(lines, 1, header_end) \o data1
        /\ out2 = SubSeq(lines, 1, header_end) \o data2
        /\ SubSeq(out1, 1, header_end) = SubSeq(out2, 1, header_end)
        /\ SubSeq(out1, 1, header_end) = SubSeq(lines, 1, header_end)

C2_Witness ==
    /\ pc = "done"
    /\ header_end > 0
    /\ data1 # <<>>
    /\ data2 # <<>>
    /\ Len(out1) = header_end + Len(data1)
    /\ Len(out2) = header_end + Len(data2)

\* -------------------------------------------------------------------- C3
ExampleBody == <<LT100, LValue, LT200, LValue>>

\* C3: a timestamp line '#t' goes to before iff t <= T, to after otherwise;
\* the body #100 1! #200 1! split at 100 gives before = #100 1! and
\* after = #200 1!, and split at 99 gives before empty and after the body.
C3_InclusiveBoundary ==
    Routing =>
        /\ DestLinked
        /\ \A n \in 1..k :
              IsTs(data[n]) => (dest[n] = 1 <=> TsVal(data[n]) <= split_time_ps)
        /\ (pc = "done" /\ data = ExampleBody /\ split_time_ps = 100)
              => (data1 = <<LT100, LValue>> /\ data2 = <<LT200, LValue>>)
        /\ (pc = "done" /\ data = ExampleBody /\ split_time_ps = 99)
              => (data1 = <<>> /\ data2 = ExampleBody)

C3_Witness ==
    /\ pc = "done"
    /\ data = ExampleBody
    /\ split_time_ps = 100
    /\ dest = <<1, 1, 2, 2>>

\* -------------------------------------------------------------------- C4
\* C4: current_time is the time of the most recent timestamp line (0 before
\* any); a line that is no timestamp line lands where the most recent
\* timestamp line before it landed, and before the first timestamp line it
\* lands in before when T >= 0.
C4_GroupsNotSplit ==
    Routing =>
        /\ DestLinked
        /\ current_time = GovTime(data, k)
        /\ \A n \in 1..k :
              ~IsTs(data[n]) =>
                  IF LastTs(data, n) = 0
                  THEN split_time_ps >= 0 => dest[n] = 1
                  ELSE dest[n] = dest[LastTs(data, n)]

C4_Witness ==
    /\ pc = "done"
    /\ split_time_ps >= 0
    /\ \E a, b, c \in 1..k :
          /\ a < b /\ b < c
          /\ ~IsTs(data[a]) /\ LastTs(data, a) = 0 /\ dest[a] = 1
          /\ IsTs(data[b]) /\ dest[b] = 2
          /\ ~IsTs(data[c]) /\ LastTs(data, c) = b /\ dest[c] = 2

\* -------------------------------------------------------------------- C5
\* C5 as stated, for every body (and a split time T >= 0, as the caller's
\* contract has it): no line that follows a line routed to after is routed to
\* before.
C5_AnyBody ==
    (Routing /\ split_time_ps >= 0) => \A n, m \in 1..k : (n < m /\ dest[n] = 2) => dest[m] = 2

\* C5, for the bodies whose timestamps never decrease: the first timestamp
\* line greater than T and every body line after it land in after, and no
\* line that follows a line routed to after is routed to before.
C5_Contiguity ==
    (Routing /\ Ordered(data, split_time_ps)) =>
        /\ DestLinked
        /\ \A n, m \in 1..k : (n < m /\ dest[n] = 2) => dest[m] = 2
        /\ \A n, m \in 1..k :
              (n <= m /\ IsTs(data[n]) /\ TsVal(data[n]) > split_time_ps)
                  => dest[m] = 2

C5_Witness ==
    /\ pc = "done"
    /\ Ordered(data, split_time_ps)
    /\ \E n \in 1..k :
          /\ n > 1 /\ n + 2 <= k
          /\ IsTs(data[n]) /\ TsVal(data[n]) > split_time_ps
          /\ dest[n - 1] = 1
          /\ Malformed(data[n + 1]) /\ dest[n + 1] = 2
          /\ dest[n + 2] = 2

\* -------------------------------------------------------------------- C6
\* C6: the step that consumes a malformed '#' line leaves current_time as it
\* was and appends the line once, to before when current_time <= T and to
\* after otherwise; the other partition is untouched.
C6_MalformedTolerated ==
    [][(pc = "route" /\ k < Len(data) /\ Malformed(data[k + 1])) =>
          /\ current_time' = current_time
          /\ k' = k + 1
          /\ pc' = "route"
          /\ IF current_time <= split_time_ps
             THEN data1' = Append(data1, data[k + 1]) /\ data2' = data2
             ELSE data2' = Append(data2, data[k + 1]) /\ data1' = data1]_vars

C6_Witness ==
    /\ pc = "done"
    /\ \E n, m \in 1..k :
          /\ Malformed(data[n]) /\ dest[n] = 1
          /\ Malformed(data[m]) /\ dest[m] = 2
          /\ Len(data1) + Len(data2) = Len(data)

\* -------------------------------------------------------------------- C7
\* The '$end' lines that come strictly after a '$dumpvars' line.
EndAfterDumpvars(ls) ==
    {j \in 1..Len(ls) :
        Contains(END, ls[j]) /\ \E d \in 1..(j - 1) : Contains(DUMPVARS, ls[d])}

\* The '$end' lines at or after a '$dumpvars' line: the '$dumpvars' line
\* itself counts when it holds '$end' too.
EndFromDumpvars(ls) ==
    {j \in 1..Len(ls) :
        Contains(END, ls[j]) /\ \E d \in 1..j : Contains(DUMPVARS, ls[d])}

\* C7 as stated: header_end is one past (0-based) the first '$end' line that
\* follows a '$dumpvars' line, 0 when there is none.
C7_StrictlyAfter ==
    pc # "scan" =>
        header_end = IF EndAfterDumpvars(lines) = {} THEN 0
                     ELSE MinOf(EndAfterDumpvars(lines))

\* C7, amended: header_end is one past (0-based) the first '$end' line at or
\* after the first '$dumpvars' line (the same line counts), 0 when there is
\* none; with header_end 0 the whole file is body and no output gets a
\* header line.
C7_HeaderBoundary ==
    /\ pc # "scan" =>
          header_end = IF EndFromDumpvars(lines) = {} THEN 0
                       ELSE MinOf(EndFromDumpvars(lines))
    /\ (pc = "done" /\ EndFromDumpvars(lines) = {}) =>
          /\ header_end = 0
          /\ data = lines
          /\ out1 = data1
          /\ out2 = data2

C7_Witness ==
    /\ pc = "done"
    /\ Len(lines) = 4
    /\ Contains(END, lines[1]) /\ ~Contains(DUMPVARS, lines[1])
    /\ Contains(DUMPVARS, lines[2]) /\ ~Contains(END, lines[2])
    /\ Contains(END, lines[3])
    /\ Contains(END, lines[4])
    /\ header_end = 3

\* -------------------------------------------------------------------- C8
\* C8: output 2 holds every body line whose governing time is at or after
\* split_time_ps, and output 1 every body line whose governing time is at or
\* before it.
C8_FromSplitTimeOnward ==
    pc = "done" =>
        /\ out2 = header \o SubseqAt(data, Len(data),
                     {n \in 1..Len(data) : GovTime(data, n) >= split_time_ps})
        /\ out1 = header \o SubseqAt(data, Len(data),
                     {n \in 1..Len(data) : GovTime(data, n) <= split_time_ps})

\* -------------------------------------------------------------------- C9
\* C9: for 0 <= T1 <= T2, splitting at T1 and splitting the output 2 of that
\* at T2 gives as output 2 the output 2 of splitting the original at T2, and
\* as before-body the original body lines with T1 < governing time <= T2.
C9_Resplit ==
    (run = 2 /\ pc = "done" /\ 0 <= t0 /\ t0 <= split_time_ps) =>
        /\ out2 = SplitVcd(in0, split_time_ps).out2
        /\ data1 = SubseqAt(BodyOf(in0), Len(BodyOf(in0)),
                     {n \in 1..Len(BodyOf(in0)) :
                         /\ GovTime(BodyOf(in0), n) > t0
                         /\ GovTime(BodyOf(in0), n) <= split_time_ps})

C9_Witness ==
    /\ run = 2
    /\ pc = "done"
    /\ 0 <= t0
    /\ t0 < split_time_ps
    /\ data1 # <<>>
    /\ data2 # <<>>
    /\ Len(lines) < Len(in0)

\* ------------------------------------------------------------------- C10
\* C10: for T >= 0, at every step, data2 is empty or begins with a timestamp
\* line whose value is greater than T.
C10_AfterStartsAtTimestamp ==
    split_time_ps >= 0 =>
        \/ data2 = <<>>
        \/ IsTs(data2[1]) /\ TsVal(data2[1]) > split_time_ps

C10_Witness ==
    /\ pc = "route"
    /\ split_time_ps >= 0
    /\ ~Ordered(data, split_time_ps)
    /\ Len(data2) >= 2
    /\ \E n \in 1..k : Malformed(data[n])
    /\ dest[k] = 1

====
